---- MODULE Spec2Model ----
(***************************************************************************)
(* The license/subscription backend of src/backend.py: a Flask service     *)
(* that keeps one record per username in users.json, opens Stripe          *)
(* checkout sessions, upgrades the record when Stripe's webhook reports a  *)
(* payment, and answers status queries.                                    *)
(***************************************************************************)
EXTENDS Integers, Sequences, FiniteSets, TLC

\* ------------------------------------------------------------------ bounds

\* Sessions the provider creates in one run (session ids 1..MaxSessions).
MaxSessions == 2
\* Times the clock is advanced in one run.
MaxTicks == 1
\* Requests the server handles at the same time.
MaxThreads == 2
\* The clock's first reading, in days since 1970-01-01 (19751 = 2024-01-29).
StartDay == 19751

Accounts == {"alice", "bob"}
\* The value of request.json's "username": an account, or missing.
Usernames == Accounts \cup {""}
\* The value of request.json's "tier" as sent by the client.
TierInputs == {"pro", "diamond", "PRO", "free", ""}
\* How far one clock advance goes, in days.
TickSteps == {31}

\* Python's None / an absent key, per field type.
NoTier == "none"
NoId == 0
NoKey == <<>>
NoDate == <<>>

\* A session (and subscription) id of the same Stripe account that this
\* service never created.
ForeignId == MaxSessions + 1

\* ------------------------------------------------------------------ calendar

\* The proleptic Gregorian date of day number z (days since 1970-01-01), as
\* datetime computes it.
CivilFromDays(z) ==
    LET zz  == z + 719468
        era == zz \div 146097
        doe == zz - era * 146097
        yoe == (doe - doe \div 1460 + doe \div 36524 - doe \div 146096) \div 365
        doy == doe - (365 * yoe + yoe \div 4 - yoe \div 100)
        mp  == (5 * doy + 2) \div 153
        d   == doy - (153 * mp + 2) \div 5 + 1
        m   == IF mp < 10 THEN mp + 3 ELSE mp - 9
        y   == yoe + era * 400 + (IF m <= 2 THEN 1 ELSE 0)
    IN  [y |-> y, m |-> m, d |-> d]

\* The day number of a date (the inverse of CivilFromDays).
DaysFromCivil(y, m, d) ==
    LET yy  == IF m <= 2 THEN y - 1 ELSE y
        era == yy \div 400
        yoe == yy - era * 400
        mp  == IF m > 2 THEN m - 3 ELSE m + 9
        doy == (153 * mp + 2) \div 5 + d - 1
        doe == yoe * 365 + yoe \div 4 - yoe \div 100 + doy
    IN  era * 146097 + doe - 719468

\* strftime("%Y%m%d"): the eight digits, read as a number.
StrfYmd(day) ==
    LET c == CivilFromDays(day) IN c.y * 10000 + c.m * 100 + c.d

\* strftime("%Y-%m-%d"): the three dash-separated fields.
StrfDash(day) ==
    LET c == CivilFromDays(day) IN <<c.y, c.m, c.d>>

\* The day a "%Y-%m-%d" string denotes.
ParseDash(s) == DaysFromCivil(s[1], s[2], s[3])

\* The day a "%Y%m%d" string denotes.
ParseYmd(n) == DaysFromCivil(n \div 10000, (n \div 100) % 100, n % 100)

\* ------------------------------------------------------------------ license

\* LICENSE_SECRET, as a number.
LICENSE_SECRET == 4099

TierCode(t) ==
    CASE t = "pro" -> 1 [] t = "diamond" -> 2 [] t = "free" -> 3 [] OTHER -> 0

\* hashlib.sha256(...).hexdigest() over "tier|expiry|secret": a fixed mixing of
\* the three fields into a 16-bit digest.
Sha256(t, expiry, secret) ==
    (TierCode(t) * 40503 + expiry * 31 + secret * 7919) % 65536

\* generate_license signing today's date instead of the expiry date.
generate_license_signing_today(tier_code, duration_days, today) ==
    LET expiry == StrfYmd(today + duration_days)
        sig    == Sha256(tier_code, StrfYmd(today), LICENSE_SECRET)
    IN  <<tier_code, expiry, sig>>

\* Lines 80-83: the three fields of the license, before they are joined and
\* encoded (RawLicense, urlsafe_b64encode).
generate_license(tier_code, duration_days, today) ==
    LET expiry == StrfYmd(today + duration_days)
        sig    == Sha256(tier_code, expiry, LICENSE_SECRET)
    IN  <<tier_code, expiry, sig>>

\* ------------------------------------------------------------------ store

VARIABLES
    users,      \* users.json: the records in file order
    sessions,   \* the provider's checkout sessions, by session id
    now,        \* the UTC clock, in days since 1970-01-01
    ticks,      \* how often the clock was advanced
    track,      \* which history this run keeps: "steps", "events" or "paid"
    last,       \* history "steps": the request handled last and its response
    seen        \* history "events": the provider events acknowledged with
                \* 200; history "paid": the accounts a settled payment was
                \* reported for, and when

VARIABLE
    threads     \* the requests in flight when handlers interleave: each one's
                \* position in its handler and its local variables

VARIABLE
    issued      \* the license generate_license returned last when it is
                \* exercised on its own, with the arguments it was given

vars == <<users, sessions, now, ticks, track, last, seen, threads, issued>>

\* users[username] = {} with the keys the handlers use.
EmptyRec(username) ==
    [username |-> username, tier |-> NoTier, license_key |-> NoKey,
     expires |-> NoDate, checkout_session_id |-> NoId, pending_tier |-> NoTier]

\* username in users
Has(u, a) == \E i \in 1..Len(u) : u[i].username = a

Idx(u, a) == CHOOSE i \in 1..Len(u) : u[i].username = a

\* users.get(username); EmptyRec stands for None.
Rec(u, a) == IF Has(u, a) THEN u[Idx(u, a)] ELSE EmptyRec(a)

TIER_PRICE_IDS == {"pro", "diamond"}

Lower(t) == IF t = "PRO" THEN "pro" ELSE t

NoResp == [tier |-> NoTier, license_key |-> NoKey, expires |-> NoDate]

\* The request handled last since the clock last advanced (status queries
\* aside): the handler, its HTTP status, whether a webhook's signature
\* verified, what it carried (<<"cc", s>>: the paid
\* checkout.session.completed of session s; <<"failed", s>>: the
\* invoice.payment_failed of session s's subscription; <<"bad_tier", 0>>: an
\* initiation with a username and an invalid tier), and whether a paid
\* checkout.session.completed repeats the one handled right before it.
NoEventKey == <<"none", NoId>>

Step(op, status, sig, key, repeat) ==
    [op |-> op, status |-> status, sig |-> sig, key |-> key, repeat |-> repeat]

Idle == Step("none", 0, FALSE, NoEventKey, FALSE)

Threads == 1..MaxThreads

\* No license issued yet.
NoIssue == [tier |-> NoTier, days |-> 0, today |-> 0, token |-> <<>>]

\* A thread with no request: pc is the handler position, op the handler, user,
\* tier and sid its local variables username, tier and session id, and local
\* its local variable users (what load_users returned).
IdleThread ==
    [pc |-> "idle", op |-> "none", user |-> "", tier |-> NoTier, sid |-> NoId,
     local |-> <<>>]

\* last after a step that history "steps" records.
Note(step) == IF track = "steps" THEN step ELSE last

\* The state after construction: no users.json, nothing at the provider.
Start(history) ==
    /\ track = history
    /\ threads = [t \in Threads |-> IdleThread]
    /\ issued = NoIssue
    /\ users = <<>>
    /\ sessions = <<>>
    /\ now = StartDay
    /\ ticks = 0
    /\ last = Idle
    /\ seen = {}

\* ------------------------------------------------------------------ clock

Tick(d) ==
    /\ ticks < MaxTicks
    /\ now' = now + d
    /\ ticks' = ticks + 1
    /\ last' = Note(Idle)
    /\ UNCHANGED <<users, sessions, track, seen, threads, issued>>

\* ------------------------------------------------------------------ checkout

NewSession(username, tier) ==
    [owner |-> username, tier |-> tier, status |-> "open",
     subscription |-> NoId, payment_status |-> "unpaid", invoice |-> "none"]

\* SavePending with the record replaced by a new one that holds only the
\* pending fields.
SavePending_fresh_record(u, username, session_id, tier) ==
    LET u1  == IF Has(u, username) THEN u ELSE Append(u, EmptyRec(username))
        new == [EmptyRec(username) EXCEPT !.checkout_session_id = session_id,
                                          !.pending_tier = tier]
    IN  [u1 EXCEPT ![Idx(u1, username)] = new]

\* SavePending leaving a pending checkout the record already holds.
SavePending_keep_first(u, username, session_id, tier) ==
    LET u1 == IF Has(u, username) THEN u ELSE Append(u, EmptyRec(username))
        i  == Idx(u1, username)
    IN  IF u1[i].checkout_session_id # NoId THEN u1
        ELSE [u1 EXCEPT ![i].checkout_session_id = session_id,
                        ![i].pending_tier = tier]

\* users after lines 129-135: the record is created if missing and its two
\* pending fields are set.
SavePending(u, username, session_id, tier) ==
    LET u1 == IF Has(u, username) THEN u ELSE Append(u, EmptyRec(username))
    IN  [u1 EXCEPT ![Idx(u1, username)].checkout_session_id = session_id,
                   ![Idx(u1, username)].pending_tier = tier]

\* create_checkout without the tier check of lines 98-99.
create_checkout_any_tier(u, sess, username, tier_in, stripe_ok) ==
    LET tier == Lower(tier_in)
    IN  IF username = ""
        THEN [users |-> u, sessions |-> sess, status |-> 400]
        ELSE IF ~stripe_ok
        THEN [users |-> u, sessions |-> sess, status |-> 500]
        ELSE [users |-> SavePending(u, username, Len(sess) + 1, tier),
              sessions |-> Append(sess, NewSession(username, tier)),
              status |-> 200]

\* create_checkout with a tier check that rejects only a missing tier.
create_checkout_nonempty_tier(u, sess, username, tier_in, stripe_ok) ==
    LET tier == Lower(tier_in)
    IN  IF username = "" \/ tier = ""
        THEN [users |-> u, sessions |-> sess, status |-> 400]
        ELSE IF ~stripe_ok
        THEN [users |-> u, sessions |-> sess, status |-> 500]
        ELSE [users |-> SavePending(u, username, Len(sess) + 1, tier),
              sessions |-> Append(sess, NewSession(username, tier)),
              status |-> 200]

\* create_checkout writing the record before stripe.checkout.Session.create
\* is called.
create_checkout_save_first(u, sess, username, tier_in, stripe_ok) ==
    LET tier == Lower(tier_in)
    IN  IF username = "" \/ tier \notin TIER_PRICE_IDS
        THEN [users |-> u, sessions |-> sess, status |-> 400]
        ELSE IF ~stripe_ok
        THEN [users |-> SavePending(u, username, NoId, tier),
              sessions |-> sess, status |-> 500]
        ELSE [users |-> SavePending(u, username, Len(sess) + 1, tier),
              sessions |-> Append(sess, NewSession(username, tier)),
              status |-> 200]

\* POST /create_checkout_session with {username, tier}, lines 90-139: the
\* users.json and the provider's sessions it leaves, and its status. stripe_ok
\* is whether stripe.checkout.Session.create returns; the session it returns
\* gets the next free id.
create_checkout(u, sess, username, tier_in, stripe_ok) ==
    LET tier == Lower(tier_in)
    IN  IF username = "" \/ tier \notin TIER_PRICE_IDS
        THEN [users |-> u, sessions |-> sess, status |-> 400]
        ELSE IF ~stripe_ok
        THEN [users |-> u, sessions |-> sess, status |-> 500]
        ELSE [users |-> SavePending(u, username, Len(sess) + 1, tier),
              sessions |-> Append(sess, NewSession(username, tier)),
              status |-> 200]

CreateCheckout(username, tier_in, stripe_ok) ==
    LET r == create_checkout(users, sessions, username, tier_in, stripe_ok)
    IN  /\ Len(r.sessions) <= MaxSessions
        /\ users' = r.users
        /\ sessions' = r.sessions
        /\ last' = Note(Step("create_checkout", r.status, FALSE,
                             IF username # "" /\ Lower(tier_in) \notin TIER_PRICE_IDS
                             THEN <<"bad_tier", NoId>> ELSE NoEventKey,
                             FALSE))
        /\ UNCHANGED <<now, ticks, track, seen, threads, issued>>

\* ------------------------------------------------------------------ provider

SessionIds == 1..MaxSessions

\* The customer completes session s on the provider's page; the subscription is
\* created, and its first invoice is paid at once or left open.
CustomerCompletes(s, paid_now) ==
    /\ s \in 1..Len(sessions)
    /\ sessions[s].status = "open"
    /\ sessions' = [sessions EXCEPT ![s].status = "complete",
                                    ![s].subscription = s,
                                    ![s].payment_status =
                                        IF paid_now THEN "paid" ELSE "unpaid",
                                    ![s].invoice =
                                        IF paid_now THEN "paid" ELSE "open"]
    /\ UNCHANGED <<users, now, ticks, track, last, seen, threads, issued>>

\* The open first invoice of session s's subscription is paid.
PaymentSettles(s) ==
    /\ s \in 1..Len(sessions)
    /\ sessions[s].invoice = "open"
    /\ sessions' = [sessions EXCEPT ![s].invoice = "paid"]
    /\ UNCHANGED <<users, now, ticks, track, last, seen, threads, issued>>

CheckoutCompleted == "checkout.session.completed"
InvoicePaidTypes == {"invoice.paid", "invoice.payment_succeeded"}
InvoiceFailed == "invoice.payment_failed"
OtherType == "customer.subscription.deleted"

Event(type, id, payment_status, subscription, checkout_session) ==
    [type |-> type, id |-> id, payment_status |-> payment_status,
     subscription |-> subscription, checkout_session |-> checkout_session]

\* Every event body the endpoint can be sent.
EventShapes ==
    UNION {{Event(CheckoutCompleted, i, p, sub, NoId) :
                p \in {"paid", "unpaid"}, sub \in {NoId, i}} : i \in 1..ForeignId}
    \cup UNION {{Event(t, NoId, "none", sub, cs) :
                t \in InvoicePaidTypes, cs \in {NoId, sub}} : sub \in 0..ForeignId}
    \cup {Event(t, NoId, "none", sub, NoId) :
                t \in {InvoiceFailed, OtherType}, sub \in 1..ForeignId}

\* The events the provider signs, given what happened at the provider: those
\* of this service's sessions, and those of other payments on the same
\* provider account (a session or subscription this service never created, a
\* one-off invoice with no subscription).
Truthful(sess) ==
    {e \in EventShapes :
        \/ /\ e.type = CheckoutCompleted
           /\ \/ /\ e.id \in 1..Len(sess)
                 /\ sess[e.id].status = "complete"
                 /\ e.payment_status = sess[e.id].payment_status
                 /\ e.subscription = e.id
              \/ /\ e.id = ForeignId
                 /\ (e.payment_status = "paid") = (e.subscription = NoId)
        \/ /\ e.type \in InvoicePaidTypes
           /\ \/ /\ e.subscription \in 1..Len(sess)
                 /\ sess[e.subscription].invoice = "paid"
              \/ e.subscription \in {NoId, ForeignId} /\ e.checkout_session = NoId
        \/ /\ e.type = InvoiceFailed
           /\ \/ /\ e.subscription \in 1..Len(sess)
                 /\ sess[e.subscription].invoice = "open"
              \/ e.subscription = ForeignId
        \/ /\ e.type = OtherType
           /\ \/ /\ e.subscription \in 1..Len(sess)
                 /\ sess[e.subscription].status = "complete"
              \/ e.subscription = ForeignId}

\* What the provider's API answers while one event is handled: whether
\* stripe.Subscription.retrieve returns, the latest invoice of a foreign
\* subscription, and the sessions stripe.checkout.Session.retrieve raises for.
ApiAnswers ==
    [sub_ok : BOOLEAN, foreign_invoice : {"none", "paid"},
     sess_fail : SUBSET SessionIds]

\* sub.get("latest_invoice").get("status"), "none" when there is no invoice.
LatestInvoice(sess, subscription_id, api) ==
    IF subscription_id \in 1..Len(sess)
    THEN sess[subscription_id].invoice
    ELSE api.foreign_invoice

\* stripe.checkout.Session.retrieve(sess_id).get("subscription")
SessionSubscription(sess, sess_id) ==
    IF sess_id \in 1..Len(sess) THEN sess[sess_id].subscription ELSE NoId

\* ------------------------------------------------------------------ webhook

Min(S) == CHOOSE x \in S : \A y \in S : x <= y

\* upgrade_user_for_session granting "pro" whatever the pending tier.
upgrade_always_pro(u, session_id, paid, t1, t2) ==
    LET hit == {i \in 1..Len(u) : u[i].checkout_session_id = session_id}
    IN  IF hit = {} \/ ~paid
        THEN [users |-> u, ok |-> FALSE]
        ELSE LET i == Min(hit)
             IN  [users |->
                    [u EXCEPT ![i] =
                        [@ EXCEPT !.tier = "pro",
                                  !.license_key = generate_license("pro", 30, t1),
                                  !.expires = StrfDash(t2 + 30),
                                  !.pending_tier = NoTier,
                                  !.checkout_session_id = NoId]],
                  ok |-> TRUE]

\* upgrade_user_for_session without the two pops of lines 174-175.
upgrade_keeping_pending(u, session_id, paid, t1, t2) ==
    LET hit == {i \in 1..Len(u) : u[i].checkout_session_id = session_id}
    IN  IF hit = {} \/ ~paid
        THEN [users |-> u, ok |-> FALSE]
        ELSE LET i    == Min(hit)
                 tier == IF u[i].pending_tier = NoTier THEN "pro"
                         ELSE u[i].pending_tier
             IN  [users |->
                    [u EXCEPT ![i] =
                        [@ EXCEPT !.tier = tier,
                                  !.license_key = generate_license(tier, 30, t1),
                                  !.expires = StrfDash(t2 + 30)]],
                  ok |-> TRUE]

\* upgrade_user_for_session without the two pops and with the 30 days added
\* to an expiry the record already holds.
upgrade_extending(u, session_id, paid, t1, t2) ==
    LET hit == {i \in 1..Len(u) : u[i].checkout_session_id = session_id}
    IN  IF hit = {} \/ ~paid
        THEN [users |-> u, ok |-> FALSE]
        ELSE LET i    == Min(hit)
                 tier == IF u[i].pending_tier = NoTier THEN "pro"
                         ELSE u[i].pending_tier
                 from == IF u[i].expires = NoDate THEN t2
                         ELSE ParseDash(u[i].expires)
             IN  [users |->
                    [u EXCEPT ![i] =
                        [@ EXCEPT !.tier = tier,
                                  !.license_key = generate_license(tier, 30, t1),
                                  !.expires = StrfDash(from + 30)]],
                  ok |-> TRUE]

\* The helper of lines 161-180; t1 and t2 are the clock's two readings
\* (generate_license's, then line 170's).
upgrade_user_for_session(u, session_id, paid, t1, t2) ==
    LET hit == {i \in 1..Len(u) : u[i].checkout_session_id = session_id}
    IN  IF hit = {} \/ ~paid
        THEN [users |-> u, ok |-> FALSE]
        ELSE LET i    == Min(hit)
                 tier == IF u[i].pending_tier = NoTier THEN "pro"
                         ELSE u[i].pending_tier
             IN  [users |->
                    [u EXCEPT ![i] =
                        [@ EXCEPT !.tier = tier,
                                  !.license_key = generate_license(tier, 30, t1),
                                  !.expires = StrfDash(t2 + 30),
                                  !.pending_tier = NoTier,
                                  !.checkout_session_id = NoId]],
                  ok |-> TRUE]

\* OnCheckoutCompleted dropping the record's pending checkout when the payment
\* is not settled.
OnCheckoutCompleted_drop_pending(u, sess, ev, api, t1, t2) ==
    LET dropped == [i \in 1..Len(u) |->
                      IF u[i].checkout_session_id = ev.id
                      THEN [u[i] EXCEPT !.checkout_session_id = NoId,
                                        !.pending_tier = NoTier]
                      ELSE u[i]]
    IN  IF ev.payment_status = "paid"
        THEN [users |-> upgrade_user_for_session(u, ev.id, TRUE, t1, t2).users,
              status |-> 200]
        ELSE IF ev.subscription # NoId
        THEN IF ~api.sub_ok
             THEN [users |-> u, status |-> 500]
             ELSE IF LatestInvoice(sess, ev.subscription, api) = "paid"
             THEN [users |-> upgrade_user_for_session(u, ev.id, TRUE, t1, t2).users,
                   status |-> 200]
             ELSE [users |-> dropped, status |-> 200]
        ELSE [users |-> dropped, status |-> 200]

\* OnCheckoutCompleted upgrading whenever the subscription can be retrieved,
\* whatever its latest invoice's status.
OnCheckoutCompleted_any_invoice(u, sess, ev, api, t1, t2) ==
    IF ev.payment_status = "paid"
    THEN [users |-> upgrade_user_for_session(u, ev.id, TRUE, t1, t2).users,
          status |-> 200]
    ELSE IF ev.subscription # NoId
    THEN IF ~api.sub_ok
         THEN [users |-> u, status |-> 500]
         ELSE [users |-> upgrade_user_for_session(u, ev.id, TRUE, t1, t2).users,
               status |-> 200]
    ELSE [users |-> u, status |-> 200]

\* Lines 183-219.
OnCheckoutCompleted(u, sess, ev, api, t1, t2) ==
    IF ev.payment_status = "paid"
    THEN [users |-> upgrade_user_for_session(u, ev.id, TRUE, t1, t2).users,
          status |-> 200]
    ELSE IF ev.subscription # NoId
    THEN IF ~api.sub_ok
         THEN [users |-> u, status |-> 500]
         ELSE IF LatestInvoice(sess, ev.subscription, api) = "paid"
         THEN [users |-> upgrade_user_for_session(u, ev.id, TRUE, t1, t2).users,
               status |-> 200]
         ELSE [users |-> u, status |-> 200]
    ELSE [users |-> u, status |-> 200]

\* The scan of lines 237-250: the first record, in file order, with a pending
\* session that can be retrieved and whose subscription is the invoice's.
ScanHit(u, sess, subscription_id, api) ==
    {i \in 1..Len(u) :
        /\ u[i].checkout_session_id # NoId
        /\ u[i].checkout_session_id \notin api.sess_fail
        /\ SessionSubscription(sess, u[i].checkout_session_id) = subscription_id}

\* Lines 222-255.
OnInvoicePaid(u, sess, ev, api, t1, t2) ==
    LET first == IF ev.checkout_session # NoId
                 THEN upgrade_user_for_session(u, ev.checkout_session, TRUE, t1, t2)
                 ELSE [users |-> u, ok |-> FALSE]
        hit   == ScanHit(u, sess, ev.subscription, api)
    IN  IF first.ok
        THEN [users |-> first.users, status |-> 200]
        ELSE IF hit # {}
        THEN [users |->
                upgrade_user_for_session(
                    u, u[Min(hit)].checkout_session_id, TRUE, t1, t2).users,
              status |-> 200]
        ELSE [users |-> u, status |-> 200]

\* webhook handling every invoice event as a paid invoice.
webhook_any_invoice(u, sess, ev, sig_ok, api, t1, t2) ==
    IF ~sig_ok
    THEN [users |-> u, status |-> 400]
    ELSE IF ev.type = CheckoutCompleted
    THEN OnCheckoutCompleted(u, sess, ev, api, t1, t2)
    ELSE IF ev.type \in InvoicePaidTypes \cup {InvoiceFailed}
    THEN OnInvoicePaid(u, sess, ev, api, t1, t2)
    ELSE [users |-> u, status |-> 200]

\* webhook with the signature's verdict looked at only after the event was
\* handled.
webhook_verify_late(u, sess, ev, sig_ok, api, t1, t2) ==
    LET r == IF ev.type = CheckoutCompleted
             THEN OnCheckoutCompleted(u, sess, ev, api, t1, t2)
             ELSE IF ev.type \in InvoicePaidTypes
             THEN OnInvoicePaid(u, sess, ev, api, t1, t2)
             ELSE [users |-> u, status |-> 200]
    IN  IF sig_ok THEN r ELSE [users |-> r.users, status |-> 400]

\* POST /webhook, lines 147-265: the users.json it leaves and its status.
webhook(u, sess, ev, sig_ok, api, t1, t2) ==
    IF ~sig_ok
    THEN [users |-> u, status |-> 400]
    ELSE IF ev.type = CheckoutCompleted
    THEN OnCheckoutCompleted(u, sess, ev, api, t1, t2)
    ELSE IF ev.type \in InvoicePaidTypes
    THEN OnInvoicePaid(u, sess, ev, api, t1, t2)
    ELSE [users |-> u, status |-> 200]

\* The account whose checkout session (or that session's subscription) event ev
\* is about; "" when it is about none of this service's sessions.
AccountOf(sess, ev) ==
    LET s == IF ev.type = CheckoutCompleted THEN ev.id
             ELSE IF ev.checkout_session # NoId THEN ev.checkout_session
             ELSE ev.subscription
    IN  IF s \in 1..Len(sess) THEN sess[s].owner ELSE ""

\* Event ev, as handled, reports a settled payment.
ReportsSettled(sess, ev, api) ==
    \/ ev.type = CheckoutCompleted /\ ev.payment_status = "paid"
    \/ /\ ev.type = CheckoutCompleted
       /\ ev.subscription # NoId
       /\ api.sub_ok
       /\ LatestInvoice(sess, ev.subscription, api) = "paid"
    \/ ev.type \in InvoicePaidTypes

\* The event a delivery counts as in the history of acknowledged events.
EventKey(ev) ==
    IF ev.type = CheckoutCompleted THEN <<"cc", ev.id>>
    ELSE IF ev.type \in InvoicePaidTypes THEN <<"inv", ev.subscription>>
    ELSE <<"other", ev.subscription>>

\* The keys history "events" keeps: the events of this service's own sessions.
OwnKeys == {"cc", "inv"} \X SessionIds

\* seen after a verified delivery of ev answered with status.
Seen(ev, api, status) ==
    CASE track = "events" /\ status = 200 ->
            seen \cup ({EventKey(ev)} \cap OwnKeys)
      [] track = "paid" /\ ReportsSettled(sessions, ev, api)
                       /\ AccountOf(sessions, ev) # "" ->
            seen \cup {<<"paid", AccountOf(sessions, ev), now>>}
      [] OTHER -> seen

\* The provider answers that event ev's handling can ask for.
ApiFor(ev) ==
    {api \in ApiAnswers :
        /\ ev.type \in InvoicePaidTypes
            \/ api.sess_fail = {}
        /\ (ev.type = CheckoutCompleted /\ ev.payment_status # "paid"
                /\ ev.subscription # NoId)
            \/ (api.sub_ok /\ api.foreign_invoice = "none")
        /\ ev.subscription = ForeignId \/ api.foreign_invoice = "none"}

NoApi == [sub_ok |-> TRUE, foreign_invoice |-> "none", sess_fail |-> {}]

\* A delivery to POST /webhook whose signature does not verify.
WebhookRejected(ev) ==
    LET r == webhook(users, sessions, ev, FALSE, NoApi, now, now)
    IN  /\ users' = r.users
        /\ last' = Note(Step("webhook", r.status, FALSE, NoEventKey, FALSE))
        /\ UNCHANGED <<sessions, now, ticks, track, seen, threads, issued>>

\* A delivery to POST /webhook of an event the provider signed. The clock may
\* advance by d2 days between the handler's two readings of it.
WebhookVerified(ev, api, d2) ==
    LET r == webhook(users, sessions, ev, TRUE, api, now, now + d2)
        k == IF ev.type = CheckoutCompleted /\ ev.id \in SessionIds
                /\ ev.payment_status = "paid"
             THEN <<"cc", ev.id>>
             ELSE IF ev.type = InvoiceFailed /\ ev.subscription \in SessionIds
             THEN <<"failed", ev.subscription>>
             ELSE NoEventKey
    IN  /\ d2 = 0 \/ (ticks < MaxTicks /\ r.users # users)
        /\ users' = r.users
        /\ now' = now + d2
        /\ ticks' = ticks + d2
        /\ last' = Note(Step("webhook", r.status, TRUE, k,
                             k[1] = "cc" /\ last.key = k /\ d2 = 0))
        /\ seen' = Seen(ev, api, r.status)
        /\ UNCHANGED <<sessions, track, threads, issued>>

\* ------------------------------------------------------------------ status

\* get_status answering the pending tier of a record that has no tier.
get_status_pending(u, username) ==
    LET r == Rec(u, username)
        t == IF r.tier = NoTier THEN r.pending_tier ELSE r.tier
    IN  IF ~Has(u, username) THEN [NoResp EXCEPT !.tier = "free"]
        ELSE IF t \notin {"pro", "diamond"}
        THEN [NoResp EXCEPT !.tier = "free"]
        ELSE [tier |-> t, license_key |-> r.license_key,
              expires |-> r.expires]

\* GET /get_status?user=..., lines 295-314: the JSON it returns.
get_status(u, username) ==
    LET r == Rec(u, username)
    IN  IF ~Has(u, username) THEN [NoResp EXCEPT !.tier = "free"]
        ELSE IF r.tier \notin {"pro", "diamond"}
        THEN [NoResp EXCEPT !.tier = "free"]
        ELSE [tier |-> r.tier, license_key |-> r.license_key,
              expires |-> r.expires]

GetStatus(username) ==
    /\ get_status(users, username).tier \in {"free", "pro", "diamond"}
    /\ UNCHANGED vars

Next ==
    \/ \E d \in TickSteps : Tick(d)
    \/ \E a \in Usernames, t \in TierInputs, ok \in BOOLEAN :
          CreateCheckout(a, t, ok)
    \/ \E s \in SessionIds, p \in BOOLEAN : CustomerCompletes(s, p)
    \/ \E s \in SessionIds : PaymentSettles(s)
    \/ \E ev \in EventShapes : WebhookRejected(ev)
    \/ \E ev \in Truthful(sessions) : \E api \in ApiFor(ev), d2 \in {0, 1} :
          WebhookVerified(ev, api, d2)
    \/ \E a \in Usernames : GetStatus(a)

Init == Start("steps")

InitEvents == Start("events")

InitPaid == Start("paid")

\* The service with the history of steps.
Spec == Init /\ [][Next]_vars

\* The service with the history of acknowledged events.
SpecEvents == InitEvents /\ [][Next]_vars

\* The service with the history of reported payments.
SpecPaid == InitPaid /\ [][Next]_vars

\* ------------------------------------------------------------------ threads

\* The handlers above run as one step each. Flask serves each request on its
\* own thread, so the steps below run the same handlers between their reads
\* and writes of users.json.

\* create_checkout up to line 126, for a request that passes validation and
\* whose stripe.checkout.Session.create returns.
CheckoutBegin(t, username, tier_in) ==
    LET r == create_checkout(<<>>, sessions, username, tier_in, TRUE)
    IN  /\ threads[t].pc = "idle"
        /\ r.status = 200
        /\ Len(r.sessions) <= MaxSessions
        /\ sessions' = r.sessions
        /\ threads' = [threads EXCEPT ![t] =
                [pc |-> "created", op |-> "create_checkout", user |-> username,
                 tier |-> Lower(tier_in), sid |-> Len(r.sessions),
                 local |-> <<>>]]
        /\ UNCHANGED <<users, now, ticks, track, last, seen, issued>>

\* Line 129: users = load_users().
CheckoutLoad(t) ==
    /\ threads[t].pc = "created"
    /\ threads' = [threads EXCEPT ![t].pc = "loaded", ![t].local = users]
    /\ UNCHANGED <<users, sessions, now, ticks, track, last, seen, issued>>

\* Lines 130-135: the pending fields are set in the local users, which
\* save_users writes over the file.
CheckoutSave(t) ==
    /\ threads[t].pc = "loaded"
    /\ threads[t].op = "create_checkout"
    /\ users' = SavePending(threads[t].local, threads[t].user, threads[t].sid,
                            threads[t].tier)
    /\ threads' = [threads EXCEPT ![t].pc = "done", ![t].local = <<>>]
    /\ UNCHANGED <<sessions, now, ticks, track, last, seen, issued>>

\* webhook for a verified checkout.session.completed with payment_status
\* "paid", up to line 162: users = load_users() in upgrade_user_for_session.
WebhookLoad(t, ev) ==
    /\ threads[t].pc = "idle"
    /\ ev.type = CheckoutCompleted
    /\ ev.payment_status = "paid"
    /\ threads' = [threads EXCEPT ![t] =
            [pc |-> "loaded", op |-> "webhook",
             user |-> IF \E i \in 1..Len(users) :
                            users[i].checkout_session_id = ev.id
                      THEN AccountOf(sessions, ev) ELSE "",
             tier |-> NoTier, sid |-> ev.id, local |-> users]]
    /\ UNCHANGED <<users, sessions, now, ticks, track, last, seen, issued>>

\* Lines 163-180: the matching record is upgraded in the local users, which
\* save_users writes over the file; without a match nothing is written.
WebhookSave(t) ==
    LET r == upgrade_user_for_session(threads[t].local, threads[t].sid, TRUE,
                                      now, now)
    IN  /\ threads[t].pc = "loaded"
        /\ threads[t].op = "webhook"
        /\ users' = IF r.ok THEN r.users ELSE users
        /\ threads' = [threads EXCEPT ![t].pc = "done", ![t].local = <<>>]
        /\ UNCHANGED <<sessions, now, ticks, track, last, seen, issued>>

\* The response is sent; the thread takes the next request.
Return(t) ==
    /\ threads[t].pc = "done"
    /\ \A t2 \in Threads : threads[t2].pc \in {"idle", "done"}
    /\ threads' = [threads EXCEPT ![t] = IdleThread]
    /\ UNCHANGED <<users, sessions, now, ticks, track, last, seen, issued>>

\* The request that created session s has returned: line 139 has handed the
\* checkout URL to the customer.
Returned(s) ==
    \A t \in Threads :
        ~(threads[t].op = "create_checkout" /\ threads[t].sid = s)

NextThreads ==
    \/ \E t \in Threads, a \in Accounts, tier \in TIER_PRICE_IDS :
          CheckoutBegin(t, a, tier)
    \/ \E t \in Threads : CheckoutLoad(t)
    \/ \E t \in Threads : CheckoutSave(t)
    \/ \E t \in Threads : \E ev \in Truthful(sessions) : WebhookLoad(t, ev)
    \/ \E t \in Threads : WebhookSave(t)
    \/ \E t \in Threads : Return(t)
    \/ \E s \in SessionIds : Returned(s) /\ CustomerCompletes(s, TRUE)

\* The service with its handlers interleaved.
SpecThreads == Init /\ [][NextThreads]_vars

\* ------------------------------------------------------------------ token

\* users.json holds a license key as the three fields of the string
\* generate_license encodes. This section is the encoding itself: strings are
\* sequences of byte values.

\* The bytes of "|".
Bar == 124

\* The largest validity, in days, generate_license is exercised with.
MaxDuration == 40

Durations == 1..MaxDuration

\* str.encode() of a tier name.
TierChars(t) ==
    CASE t = "pro"     -> <<112, 114, 111>>
      [] t = "diamond" -> <<100, 105, 97, 109, 111, 110, 100>>
      [] t = "free"    -> <<102, 114, 101, 101>>
      [] OTHER         -> <<>>

\* The decimal digits of n, width characters wide with leading zeros.
Digits(n, width) ==
    [i \in 1..width |-> 48 + ((n \div (10 ^ (width - i))) % 10)]

\* One lower-case hexadecimal digit.
HexChar(d) == IF d < 10 THEN 48 + d ELSE 87 + d

\* hexdigest(): the digest's four hexadecimal digits.
HexDigest(n) ==
    [i \in 1..4 |-> HexChar((n \div (16 ^ (4 - i))) % 16)]

\* raw of line 83: f"{tier_code}|{expiry}|{sig}" for the fields of a license.
RawLicense(f) ==
    TierChars(f[1]) \o <<Bar>> \o Digits(f[2], 8) \o <<Bar>> \o HexDigest(f[3])

\* The URL-safe base64 alphabet: A-Z, a-z, 0-9, "-", "_".
B64Char(i) ==
    IF i < 26 THEN 65 + i
    ELSE IF i < 52 THEN 71 + i
    ELSE IF i < 62 THEN i - 4
    ELSE IF i = 62 THEN 45 ELSE 95

\* "=", the padding character.
Pad == 61

\* base64.urlsafe_b64encode: three bytes become four characters, the last
\* group is filled with zero bits and padded with "=".
urlsafe_b64encode(bytes) ==
    LET n      == Len(bytes)
        groups == (n + 2) \div 3
        at(i)  == IF i <= n THEN bytes[i] ELSE 0
        word(g) == at(3 * g - 2) * 65536 + at(3 * g - 1) * 256 + at(3 * g)
        sextet(g, k) == (word(g) \div (64 ^ (4 - k))) % 64
        pads   == (3 - (n % 3)) % 3
    IN  [j \in 1..(4 * groups) |->
            IF j > 4 * groups - pads THEN Pad
            ELSE B64Char(sextet((j + 3) \div 4, 1 + ((j - 1) % 4)))]

\* Line 84: the license key as returned, the base64 text of raw.
license_token(tier_code, duration_days, today) ==
    urlsafe_b64encode(RawLicense(generate_license(tier_code, duration_days, today)))

\* The value of a base64 character.
B64Value(c) ==
    IF c = Pad THEN 0 ELSE CHOOSE i \in 0..63 : B64Char(i) = c

\* base64.urlsafe_b64decode, the verifier's first step.
urlsafe_b64decode(text) ==
    LET groups == Len(text) \div 4
        pads   == Cardinality({j \in 1..Len(text) : text[j] = Pad})
        word(g) == B64Value(text[4 * g - 3]) * 262144
                   + B64Value(text[4 * g - 2]) * 4096
                   + B64Value(text[4 * g - 1]) * 64
                   + B64Value(text[4 * g])
    IN  [i \in 1..(3 * groups - pads) |->
            (word((i + 2) \div 3) \div (256 ^ (2 - ((i - 1) % 3)))) % 256]

\* bytes.split(b"|")
RECURSIVE Split(_)
Split(bytes) ==
    LET bars == {i \in 1..Len(bytes) : bytes[i] = Bar}
    IN  IF bars = {} THEN <<bytes>>
        ELSE <<SubSeq(bytes, 1, Min(bars) - 1)>>
                 \o Split(SubSeq(bytes, Min(bars) + 1, Len(bytes)))

\* The number a string of decimal digits denotes; -1 if it is not one.
RECURSIVE ParseDigits(_)
ParseDigits(chars) ==
    IF chars = <<>> THEN 0
    ELSE LET c    == chars[Len(chars)]
             rest == ParseDigits(SubSeq(chars, 1, Len(chars) - 1))
         IN  IF c \notin 48..57 \/ rest < 0 THEN -1 ELSE (10 * rest) + (c - 48)

\* The result of verify for a token it rejects.
Invalid == <<"invalid", 0>>

\* verify(token): decode, split on "|", recompute the signature with the same
\* secret and compare; the tier and the expiry day, or Invalid.
verify(token) ==
    LET f     == Split(urlsafe_b64decode(token))
        tiers == {t \in {"pro", "diamond", "free"} : TierChars(t) = f[1]}
        date  == ParseDigits(f[2])
    IN  IF Len(token) % 4 # 0 \/ Len(f) # 3 THEN Invalid
        ELSE IF tiers = {} \/ Len(f[2]) # 8 \/ date < 0 THEN Invalid
        ELSE LET t == CHOOSE x \in tiers : TRUE
             IN  IF f[3] # HexDigest(Sha256(t, date, LICENSE_SECRET))
                 THEN Invalid
                 ELSE <<t, ParseYmd(date)>>

\* generate_license called with a tier and a validity, at today's date.
Issue(tier_code, duration_days) ==
    /\ issued' = [tier |-> tier_code, days |-> duration_days, today |-> now,
                  token |-> license_token(tier_code, duration_days, now)]
    /\ UNCHANGED <<users, sessions, now, ticks, track, last, seen, threads>>

NextLicense ==
    \/ \E t \in TIER_PRICE_IDS, n \in Durations : Issue(t, n)
    \/ \E d \in TickSteps : Tick(d)

\* generate_license on its own, at the dates the clock reaches.
SpecLicense == Init /\ [][NextLicense]_vars

\* ------------------------------------------------------------------ claims

PaidTiers == {"pro", "diamond"}

\* The record of account a holds a paid tier together with a license key.
Active(u, a) ==
    Has(u, a) /\ Rec(u, a).tier \in PaidTiers /\ Rec(u, a).license_key # NoKey

\* The inputs of one verified delivery in the current state.
Deliveries ==
    UNION {ApiFor(ev) \X {0, 1} \X {ev} : ev \in Truthful(sessions)}

\* C1: a record holds a paid tier with a license key only if a verified event
\* reporting a settled payment for a checkout session of that account was
\* processed before.
C1_PaidOnlyAfterSettledEvent ==
    \A a \in Accounts :
        Active(users, a) => \E p \in seen : p[1] = "paid" /\ p[2] = a

\* C2: a delivery whose signature fails verification leaves users.json exactly
\* as it was, whatever the body carries and whatever the provider would answer.
C2_RejectedLeavesStore ==
    \A ev \in EventShapes, api \in ApiAnswers, d2 \in {0, 1} :
        LET r == webhook(users, sessions, ev, FALSE, api, now, now + d2)
        IN  r.users = users /\ r.status = 400

\* C2 witness: a delivery was rejected while the store held a pending checkout
\* that the forged body could have completed.
C2_Witness ==
    /\ last.op = "webhook" /\ ~last.sig /\ last.status = 400
    /\ \E i \in 1..Len(users) : users[i].checkout_session_id # NoId

\* Event ev makes the handler call stripe.Subscription.retrieve.
AsksSubscription(ev) ==
    /\ ev.type = CheckoutCompleted
    /\ ev.payment_status # "paid"
    /\ ev.subscription # NoId

C4_CheckoutSetsOnlyPending ==
    \A a \in Accounts, t \in TierInputs :
        LET r == create_checkout(users, sessions, a, t, TRUE)
        IN  r.status = 200 =>
              /\ Len(r.sessions) = Len(sessions) + 1
              /\ r.sessions[Len(r.sessions)].owner = a
              /\ Has(r.users, a)
              /\ Rec(r.users, a).checkout_session_id = Len(r.sessions)
              /\ Rec(r.users, a).pending_tier = Lower(t)
              /\ Rec(r.users, a).tier = Rec(users, a).tier
              /\ Rec(r.users, a).license_key = Rec(users, a).license_key
              /\ Rec(r.users, a).expires = Rec(users, a).expires
              /\ \A b \in Accounts \ {a} :
                    Has(r.users, b) = Has(users, b) /\ Rec(r.users, b) = Rec(users, b)

\* C4 witness: an account with an active paid tier has just initiated a new
\* checkout and keeps its tier and license.
C4_Witness ==
    /\ last.op = "create_checkout" /\ last.status = 200
    /\ \E a \in Accounts :
          /\ Active(users, a)
          /\ Rec(users, a).checkout_session_id = Len(sessions)
          /\ Rec(users, a).pending_tier # Rec(users, a).tier

\* C5: a verified checkout.session.completed with payment_status "paid" whose
\* session id is a record's pending checkout id leaves that record with tier =
\* its pending tier, a license key minted for that tier and for today + 30
\* days with the secret's signature, expires = today + 30 days, and no pending
\* checkout id or pending tier.
C5_PaidCheckoutUpgrades ==
    \A dl \in Deliveries, i \in 1..Len(users) :
        LET ev == dl[3]
            r  == webhook(users, sessions, ev, TRUE, dl[1], now, now + dl[2])
        IN  (/\ ev.type = CheckoutCompleted
             /\ ev.payment_status = "paid"
             /\ users[i].checkout_session_id = ev.id) =>
              /\ r.status = 200
              /\ Len(r.users) = Len(users)
              /\ r.users[i].username = users[i].username
              /\ r.users[i].tier = users[i].pending_tier
              /\ r.users[i].tier \in PaidTiers
              /\ Len(r.users[i].license_key) = 3
              /\ r.users[i].license_key[1] = users[i].pending_tier
              /\ ParseYmd(r.users[i].license_key[2]) = now + 30
              /\ r.users[i].license_key[3] =
                    Sha256(users[i].pending_tier, r.users[i].license_key[2],
                           LICENSE_SECRET)
              /\ ParseDash(r.users[i].expires) = now + dl[2] + 30
              /\ r.users[i].checkout_session_id = NoId
              /\ r.users[i].pending_tier = NoTier

\* C5 witness: a paid checkout.session.completed of one of this service's
\* sessions was just handled and its account's record is active, with the
\* session's tier, an expiry 30 days ahead and no pending fields.
C5_Witness ==
    /\ last.op = "webhook" /\ last.sig /\ last.status = 200 /\ ~last.repeat
    /\ last.key[1] = "cc"
    /\ LET a == sessions[last.key[2]].owner
       IN  /\ Active(users, a)
           /\ Rec(users, a).tier = sessions[last.key[2]].tier
           /\ ParseDash(Rec(users, a).expires) = now + 30
           /\ Rec(users, a).checkout_session_id = NoId

\* C6: once a verified event has reported a settled payment for an account
\* (its first payment or a renewal, invoice.paid / invoice.payment_succeeded),
\* an account that is active carries a license key and an expiry that reach
\* 30 days past that event: every payment refreshes them.
C6_RenewalRefreshes ==
    \A p \in seen : \A a \in Accounts :
        (p[1] = "paid" /\ p[2] = a /\ Active(users, a)) =>
            /\ ParseDash(Rec(users, a).expires) >= p[3] + 30
            /\ ParseYmd(Rec(users, a).license_key[2]) >= p[3] + 30

\* C7: the status query of an account whose record's expiry date is before the
\* current UTC date answers tier "free".
C7_ExpiredReportsFree ==
    \A a \in Accounts :
        (/\ Has(users, a)
         /\ Rec(users, a).expires # NoDate
         /\ ParseDash(Rec(users, a).expires) < now) =>
            get_status(users, a).tier = "free"

\* The sessions that are their owner's latest checkout initiation.
Latest(s) ==
    \A s2 \in (s + 1)..Len(sessions) : sessions[s2].owner # sessions[s].owner

\* C9: once the payment of an account's latest checkout session is settled and
\* the session's events (checkout.session.completed and invoice.paid) have
\* each been delivered and acknowledged, in any order and any number of
\* times, the account is active with the tier the session requested.
C9_SettledSessionConverges ==
    \A s \in 1..Len(sessions) :
        (/\ Latest(s)
         /\ sessions[s].invoice = "paid"
         /\ {<<"cc", s>>, <<"inv", s>>} \subseteq seen) =>
            /\ Active(users, sessions[s].owner)
            /\ Rec(users, sessions[s].owner).tier = sessions[s].tier

\* C10: handling the same paid checkout.session.completed a second time at the
\* same clock readings leaves users.json as the first handling left it.
C10_ReplayIdempotent ==
    \A dl \in Deliveries :
        LET ev == dl[3]
            t2 == now + dl[2]
            once  == webhook(users, sessions, ev, TRUE, dl[1], now, t2).users
            twice == webhook(once, sessions, ev, TRUE, dl[1], now, t2).users
        IN  (ev.type = CheckoutCompleted /\ ev.payment_status = "paid") =>
                twice = once

\* C10 witness: a paid checkout.session.completed was handled twice in a row at
\* one clock reading, and its account's record is the upgraded one.
C10_Witness ==
    /\ last.op = "webhook" /\ last.sig /\ last.repeat
    /\ last.key[1] = "cc"
    /\ LET a == sessions[last.key[2]].owner
       IN  /\ Active(users, a)
           /\ Rec(users, a).tier = sessions[last.key[2]].tier
           /\ ParseDash(Rec(users, a).expires) = now + 30

\* The record a finished checkout initiation of thread t must have left.
CheckoutEffect(t) ==
    /\ Has(users, threads[t].user)
    /\ Rec(users, threads[t].user).checkout_session_id = threads[t].sid
    /\ Rec(users, threads[t].user).pending_tier = threads[t].tier

\* The record a finished webhook upgrade of thread t must have left, when the
\* event's session was an account's pending checkout.
UpgradeEffect(t) ==
    threads[t].user # "" =>
        /\ Active(users, threads[t].user)
        /\ Rec(users, threads[t].user).tier = sessions[threads[t].sid].tier
        /\ Rec(users, threads[t].user).checkout_session_id = NoId

\* C8: when two requests for different accounts (checkout initiations or
\* webhook upgrades) have both finished, however their steps interleaved,
\* users.json holds the effect of both.
C8_DifferentAccountsDoNotInterfere ==
    \A t1, t2 \in Threads :
        (/\ t1 # t2
         /\ threads[t1].pc = "done" /\ threads[t2].pc = "done"
         /\ threads[t1].user # threads[t2].user
         /\ threads[t1].user # "" /\ threads[t2].user # "") =>
            \A t \in {t1, t2} :
                IF threads[t].op = "create_checkout"
                THEN CheckoutEffect(t) ELSE UpgradeEffect(t)

\* data.get(key) on a record of users.json: the keys the handlers write are
\* the record's fields, any other key is absent and reads as None.
Get(rec, key) == IF key \in DOMAIN rec THEN rec[key] ELSE NoId

\* C11: a verified event that is about none of this service's sessions (its
\* session id and its subscription id belong to no account) leaves users.json
\* as it was: same accounts, same records.
C11_UnmatchedEventIsNoOp ==
    \A dl \in Deliveries :
        AccountOf(sessions, dl[3]) = "" =>
            webhook(users, sessions, dl[3], TRUE, dl[1], now, now + dl[2]).users
                = users

\* The payment event ev reports is not settled, as far as the handler can tell.
NotSettled(ev, api) ==
    /\ ev.type = CheckoutCompleted
    /\ ev.payment_status # "paid"
    /\ \/ ev.subscription = NoId
       \/ ~api.sub_ok
       \/ LatestInvoice(sessions, ev.subscription, api) # "paid"

\* C12: a verified checkout.session.completed whose payment is not settled
\* (payment_status not "paid", latest invoice absent or not "paid") leaves
\* users.json as it was, the matching record's pending fields included.
C12_UnsettledCheckoutChangesNothing ==
    \A dl \in Deliveries :
        NotSettled(dl[3], dl[1]) =>
            webhook(users, sessions, dl[3], TRUE, dl[1], now, now + dl[2]).users
                = users

\* C12 witness: the unsettled checkout.session.completed of a session was
\* acknowledged while the session's invoice is open, and its account's record
\* still holds the pending checkout and tier and is not active.
C12_Witness ==
    \E s \in 1..Len(sessions) :
        /\ <<"cc", s>> \in seen
        /\ sessions[s].invoice = "open"
        /\ Rec(users, sessions[s].owner).checkout_session_id = s
        /\ Rec(users, sessions[s].owner).pending_tier = sessions[s].tier
        /\ ~Active(users, sessions[s].owner)

\* C13: a verified customer.subscription.deleted for the subscription of an
\* active account sets that record's cancel date and leaves its tier, license
\* key and expiry as they were; and the status query reports free once the
\* expiry has passed.
C13_CancellationRecorded ==
    /\ \A dl \in Deliveries : \A a \in Accounts :
          LET ev == dl[3]
              r  == webhook(users, sessions, ev, TRUE, dl[1], now, now + dl[2])
          IN  (/\ ev.type = OtherType
               /\ AccountOf(sessions, ev) = a
               /\ Active(users, a)) =>
                  /\ Get(Rec(r.users, a), "cancel_at") # NoId
                  /\ Rec(r.users, a).tier = Rec(users, a).tier
                  /\ Rec(r.users, a).license_key = Rec(users, a).license_key
                  /\ Rec(r.users, a).expires = Rec(users, a).expires
    /\ \A a \in Accounts :
          (Active(users, a) /\ ParseDash(Rec(users, a).expires) < now) =>
              get_status(users, a).tier = "free"

\* C14: every record that has a license key also has an expiry date and a
\* paid tier.
C14_LicensedRecordIsPaid ==
    \A i \in 1..Len(users) :
        users[i].license_key # NoKey =>
            users[i].expires # NoDate /\ users[i].tier \in PaidTiers

\* C14 witness: a record has a license key.
C14_Witness ==
    /\ last.op = "webhook" /\ last.sig /\ last.status = 200
    /\ \E i \in 1..Len(users) : users[i].license_key # NoKey

\* C15: a record's pending checkout is its account's latest checkout session,
\* with that session's tier (a second initiation replaces the first), and a
\* paid checkout.session.completed of a superseded session leaves users.json
\* as it was.
C15_SupersededCheckoutDoesNotUpgrade ==
    /\ \A i \in 1..Len(users) :
          LET id == users[i].checkout_session_id
          IN  id # NoId =>
                /\ id \in 1..Len(sessions)
                /\ sessions[id].owner = users[i].username
                /\ Latest(id)
                /\ users[i].pending_tier = sessions[id].tier
    /\ \A dl \in Deliveries :
          LET ev == dl[3]
          IN  (/\ ev.type = CheckoutCompleted
               /\ ev.payment_status = "paid"
               /\ ev.id \in 1..Len(sessions)
               /\ ~Latest(ev.id)) =>
                  webhook(users, sessions, ev, TRUE, dl[1], now, now + dl[2]).users
                      = users

\* C15 witness: the paid checkout.session.completed of a superseded session
\* was just handled; its account is not active and still holds the later
\* session as its pending checkout.
C15_Witness ==
    /\ last.op = "webhook" /\ last.sig /\ last.status = 200
    /\ last.key[1] = "cc"
    /\ ~Latest(last.key[2])
    /\ LET a == sessions[last.key[2]].owner
       IN  /\ ~Active(users, a)
           /\ Rec(users, a).checkout_session_id > last.key[2]

\* C16: a checkout initiation whose tier, lower-cased as the handler does, is
\* neither pro nor diamond is answered with an error status, creates no
\* provider session and leaves users.json as it was.
C16_InvalidTierRejected ==
    \A a \in Usernames, t \in TierInputs, ok \in BOOLEAN :
        LET r == create_checkout(users, sessions, a, t, ok)
        IN  Lower(t) \notin PaidTiers =>
              r.status = 400 /\ r.sessions = sessions /\ r.users = users

\* C16 witness: an initiation with a username and an invalid tier was just
\* rejected.
C16_Witness ==
    /\ last.op = "create_checkout" /\ last.status = 400
    /\ last.key[1] = "bad_tier"

\* C17: when stripe.checkout.Session.create fails, the initiation is answered
\* 500 and users.json is as it was: no record created, no pending field
\* written.
C17_ProviderFailureLeavesStore ==
    \A a \in Accounts, t \in TierInputs :
        LET r == create_checkout(users, sessions, a, t, FALSE)
        IN  Lower(t) \in TIER_PRICE_IDS =>
              r.status = 500 /\ r.users = users /\ r.sessions = sessions

\* C17 witness: an initiation was just answered 500.
C17_Witness ==
    last.op = "create_checkout" /\ last.status = 500

\* The record of account a holds neither tier, license key nor expiry.
OnlyPending(u, a) ==
    /\ Rec(u, a).tier = NoTier
    /\ Rec(u, a).license_key = NoKey
    /\ Rec(u, a).expires = NoDate

\* C18: the status query of an account with no record, or with a record that
\* holds only pending fields, answers tier free and no license key; and a
\* checkout initiation changes no account's status answer.
C18_PendingReportsFree ==
    /\ \A a \in Usernames :
          (~Has(users, a) \/ OnlyPending(users, a)) =>
              get_status(users, a) = [NoResp EXCEPT !.tier = "free"]
    /\ \A a \in Usernames, t \in TierInputs, ok \in BOOLEAN, b \in Usernames :
          get_status(create_checkout(users, sessions, a, t, ok).users, b)
              = get_status(users, b)

\* C18 witness: a checkout was just initiated for an account whose record holds
\* only pending fields, and its status answer is free.
C18_Witness ==
    /\ last.op = "create_checkout" /\ last.status = 200
    /\ \E a \in Accounts :
          /\ Has(users, a) /\ OnlyPending(users, a)
          /\ Rec(users, a).checkout_session_id = Len(sessions)
          /\ get_status(users, a).tier = "free"

\* C19: every active record holds the provider's customer id and subscription
\* id of the payment that made it active.
C19_ActiveRecordHasProviderIds ==
    \A a \in Accounts :
        Active(users, a) =>
            /\ Get(Rec(users, a), "provider_subscription_id") # NoId
            /\ Get(Rec(users, a), "provider_customer_id") # NoId

\* C20: a verified invoice.payment_failed leaves users.json as it was, whatever
\* subscription the invoice names, and is answered 200.
C20_PaymentFailedChangesNothing ==
    \A ev \in EventShapes, api \in ApiAnswers, d2 \in {0, 1} :
        LET r == webhook(users, sessions, ev, TRUE, api, now, now + d2)
        IN  ev.type = InvoiceFailed => r.users = users /\ r.status = 200

\* C20 witness: the invoice.payment_failed of a session's subscription was just
\* handled while that session is its account's pending checkout.
C20_Witness ==
    /\ last.op = "webhook" /\ last.sig /\ last.status = 200
    /\ last.key[1] = "failed"
    /\ Rec(users, sessions[last.key[2]].owner).checkout_session_id = last.key[2]

\* The string chars occurs in the string text.
Occurs(chars, text) ==
    \E i \in 1..(Len(text) - Len(chars) + 1) :
        SubSeq(text, i, i + Len(chars) - 1) = chars

\* C21: decoding the token generate_license returns for a paid tier T and a
\* validity N and splitting it on "|" gives exactly three fields: T, the date
\* today + N as YYYYMMDD, and the digest recomputed over T, that date and the
\* secret; verify answers (T, today + N); and the secret occurs neither in the
\* token nor in the decoded string.
C21_CredentialRoundTrip ==
    issued # NoIssue =>
        LET raw  == urlsafe_b64decode(issued.token)
            f    == Split(raw)
            date == StrfYmd(issued.today + issued.days)
        IN  /\ Len(f) = 3
            /\ f[1] = TierChars(issued.tier)
            /\ f[2] = Digits(date, 8)
            /\ f[3] = HexDigest(Sha256(issued.tier, date, LICENSE_SECRET))
            /\ verify(issued.token) = <<issued.tier, issued.today + issued.days>>
            /\ ~Occurs(Digits(LICENSE_SECRET, 4), raw)
            /\ ~Occurs(Digits(LICENSE_SECRET, 4), issued.token)

\* C21 witness: a diamond license was issued after the clock had advanced, for
\* a validity that ends in a later month.
C21_Witness ==
    /\ issued.tier = "diamond"
    /\ ticks = 1
    /\ issued.today = now
    /\ CivilFromDays(issued.today + issued.days).m # CivilFromDays(issued.today).m
    /\ verify(issued.token) = <<"diamond", issued.today + issued.days>>

\* Session s is the only checkout its account ever initiated.
OnlySession(s) ==
    \A s2 \in 1..Len(sessions) : s2 # s => sessions[s2].owner # sessions[s].owner

\* C22: once the webhook for the paid checkout.session.completed of an
\* account's only checkout session has been handled and no request is still
\* between its load and its save, the account is active with the session's
\* tier, whatever requests the webhook interleaved with: the paid upgrade is
\* never dropped.
C22_PaidUpgradeNeverDropped ==
    \A t \in Threads :
        (/\ threads[t].op = "webhook"
         /\ threads[t].pc = "done"
         /\ threads[t].sid \in 1..Len(sessions)
         /\ OnlySession(threads[t].sid)
         /\ \A t2 \in Threads : threads[t2].pc \in {"idle", "done"}) =>
            LET a == sessions[threads[t].sid].owner
            IN  Active(users, a) /\ Rec(users, a).tier = sessions[threads[t].sid].tier

\* C23: in every record an upgrade wrote for a paid checkout session, the date
\* in the field expires is the date embedded in the license key.
C23_ExpiryDatesAgree ==
    \A i \in 1..Len(users) :
        (/\ users[i].license_key # NoKey
         /\ \E s \in 1..Len(sessions) :
               /\ sessions[s].owner = users[i].username
               /\ sessions[s].payment_status = "paid") =>
            ParseDash(users[i].expires) = ParseYmd(users[i].license_key[2])

\* C24: a verified event changes no record but that of the account its
\* session (or its session's subscription) belongs to, also when several
\* accounts hold pending checkouts.
C24_OnlyTheEventsAccountChanges ==
    \A dl \in Deliveries :
        LET ev == dl[3]
            r  == webhook(users, sessions, ev, TRUE, dl[1], now, now + dl[2])
        IN  /\ Len(r.users) = Len(users)
            /\ \A i \in 1..Len(users) :
                  users[i].username # AccountOf(sessions, ev) =>
                      r.users[i] = users[i]

\* C25: a record's tier is a paid tier that a checkout initiation of that
\* account requested, and an event that changes a record's tier sets it to the
\* record's pending tier, the tier of the account's latest initiation.
C25_GrantedTierWasRequested ==
    /\ \A i \in 1..Len(users) :
          users[i].tier # NoTier =>
              /\ users[i].tier \in PaidTiers
              /\ \E s \in 1..Len(sessions) :
                    /\ sessions[s].owner = users[i].username
                    /\ sessions[s].tier = users[i].tier
    /\ \A dl \in Deliveries :
          LET r == webhook(users, sessions, dl[3], TRUE, dl[1], now, now + dl[2])
          IN  \A i \in 1..Len(users) :
                  r.users[i] # users[i] =>
                      /\ r.users[i].tier = users[i].pending_tier
                      /\ \E s \in 1..Len(sessions) :
                            /\ sessions[s].owner = users[i].username
                            /\ Latest(s)
                            /\ sessions[s].tier = r.users[i].tier

\* C25 witness: an account that first requested one tier and then another was
\* just upgraded by the paid checkout.session.completed of its second session,
\* to the second tier.
C25_Witness ==
    /\ last.op = "webhook" /\ last.sig /\ last.status = 200
    /\ last.key = <<"cc", 2>>
    /\ Len(sessions) = 2
    /\ sessions[1].owner = sessions[2].owner
    /\ sessions[1].tier # sessions[2].tier
    /\ Rec(users, sessions[2].owner).tier = sessions[2].tier
    /\ Rec(users, sessions[2].owner).license_key[1] = sessions[2].tier
====
